---- MODULE Spec2Model ----
(***************************************************************************)
(* Model of the Kannada news automation pipeline orchestrator              *)
(* (src/src/kannada_news_automation/pipeline.py), of the collaborators it  *)
(* sequences (agents/*.py) and of the entry points that invoke it          *)
(* (main.py).                                                              *)
(*                                                                         *)
(* Python dicts are functions whose DOMAIN is the key set, lists are       *)
(* sequences, None is the string "None", an empty news item ({}) is the    *)
(* string "empty".  A coroutine is a record with a program counter; one    *)
(* action is the code executed between two suspension points.  The         *)
(* read-modify-write of a counter (self.stats[k] += 1) is a load followed  *)
(* by a store, because the scheduler thread of main.py runs the same code  *)
(* on the same object without a lock.                                      *)
(***************************************************************************)
EXTENDS Integers, Sequences, FiniteSets, TLC

\* ------------------------------------------------------------------ bounds
MaxRuns == 2              \* invocations of run_complete_pipeline explored
MaxChecks == 2            \* invocations of health_check explored
MaxTranslateFaults == 1   \* leading categories of a run whose translator calls may misbehave
MaxMediaFaults == 1       \* leading categories of a run whose media search may fall back

\* --------------------------------------------------------------- constants
MinAudioSegments == 3

categories == <<"international", "national", "karnataka", "tamilnadu", "andhra", "kerala">>

Categories == {categories[i] : i \in 1..Len(categories)}

None == "None"

EmptyItem == "empty"

NewsItem == "item"

ErrNoNews == "No news data collected"

ErrNoSummaries == "No content summaries generated"

ErrInsufficientAudio == "Insufficient audio files generated"

ErrVideoAssembly == "Video assembly failed"

ErrCollaborator == "collaborator raised"

GateErrors == {ErrNoNews, ErrNoSummaries, ErrInsufficientAudio, ErrVideoAssembly}

\* Coroutines that run run_complete_pipeline: background tasks on the server
\* event loop, and the job of the scheduler thread.
LoopTasks == {"m1", "m2"}

ThreadTasks == {"sched"}

Tasks == LoopTasks \cup ThreadTasks

VARIABLES
    stats,            \* self.stats of the one pipeline object
    now,              \* the clock read by datetime.now()
    started,          \* number of invocations of run_complete_pipeline so far
    frame,            \* per coroutine: program counter and locals of run_complete_pipeline
    result,           \* per coroutine: the dict returned by its latest invocation
    hc,               \* program counter and locals of health_check
    health_status,    \* the dict health_check builds and returns
    checks,           \* number of invocations of health_check so far
    ct,               \* program counter of collect_all_categories (stand-alone call)
    results,          \* its gather results, per category
    collected_news,   \* the dict it returns
    audio_cache,      \* the files present under ./data/audio_cache
    na_log,           \* the calls of generate_kannada_audio so far, in order
    ba,               \* program counter and locals of generate_batch_audio (stand-alone call)
    ep,               \* the latest response of the /health endpoint
    fm,               \* program counter and locals of find_relevant_media (stand-alone call)
    up,               \* program counter and locals of _upload_video (stand-alone call)
    cv                \* program counter and locals of create_complete_video (stand-alone call)

vars == <<stats, now, started, frame, result, hc, health_status, checks,
          ct, results, collected_news, audio_cache, na_log, ba, ep,
          fm, up, cv>>

pipelineVars == <<stats, now, started, frame, result>>

healthVars == <<hc, health_status, checks>>

collectVars == <<ct, results, collected_news>>

agentVars == <<audio_cache, na_log, ba, ep, fm, up, cv>>

\* ------------------------------------------------------------ dict helpers
\* faulty variant of Truthy: no test at all
Truthy_Always(v) == TRUE

\* bool(v) for the values the orchestrator tests for truth
Truthy(v) == v \notin {EmptyItem, None, ""}

\* max(a, b)
Max(a, b) == IF a >= b THEN a ELSE b

\* list(d.keys()), in insertion order: every dict of a run is filled in the
\* order of the categories list of collect_all_categories
KeysList(d) == SelectSeq(categories, LAMBDA c : c \in DOMAIN d)

\* the first n categories of S, in the order of the categories list
FirstN(S, n) ==
    {categories[i] : i \in {j \in 1..Len(categories) :
        /\ categories[j] \in S
        /\ Cardinality({k \in 1..j : categories[k] \in S}) <= n}}

\* {k: v for k, v in d.items() if k in keep}
Restrict(d, keep) == [k \in (DOMAIN d) \cap keep |-> d[k]]

\* ------------------------------------------------- news_collector.py
\* collect_trending_news: every failure inside it is caught and turned into {}
CollectTrendingNews(env) ==
    IF ~env.sources THEN EmptyItem
    ELSE IF env.achat = "raise" THEN EmptyItem
    ELSE IF env.rss = "raise" THEN EmptyItem
    ELSE IF env.rss = "entries" THEN NewsItem
    ELSE EmptyItem

FetchEnvs == [sources : BOOLEAN, achat : {"ok", "raise"}, rss : {"entries", "none", "raise"}]

\* isinstance(result, Exception) on a gather result
IsException(x) == x = "raise"

\* the loop over zip(categories, results)
ZipResults(res) ==
    [c \in Categories |-> IF IsException(res[c]) THEN EmptyItem ELSE res[c]]

\* what a fetch task can hand to gather: the value collect_trending_news
\* returns, or an exception when the fetch is substituted by one that raises
FetchResults == {CollectTrendingNews(e) : e \in FetchEnvs} \cup {"raise"}

\* every dict collect_all_categories can return
AllNewsMaps == {ZipResults(f) : f \in [Categories -> FetchResults]}

\* ------------------------------------------------- translator.py
\* a completion call of the translator errors under env
CompletionErrors(env) ==
    \/ env.achat = "raise"
    \/ env.complete = "raise"
    \/ ~env.valid /\ env.fallback = "raise"

TranslatorEnvs == [achat : {"ok", "raise"}, complete : {"ok", "raise"},
                   valid : BOOLEAN, fallback : {"ok", "raise"}]

OkTranslatorEnv == [achat |-> "ok", complete |-> "ok", valid |-> TRUE, fallback |-> "ok"]

\* translate_with_context: "kannada" is the validated translation,
\* "fallback" the unvalidated second completion, "placeholder" the
\* emergency string built in the except branch
\* faulty variant of TranslateWithContext: no except branch, the error propagates
TranslateWithContext_NoExcept(env) ==
    IF env.achat = "raise" THEN "raise"
    ELSE IF env.complete = "raise" THEN "raise"
    ELSE IF env.valid THEN "kannada"
    ELSE IF env.fallback = "raise" THEN "raise"
    ELSE "fallback"

TranslateWithContext(env) ==
    IF env.achat = "raise" THEN "placeholder"
    ELSE IF env.complete = "raise" THEN "placeholder"
    ELSE IF env.valid THEN "kannada"
    ELSE IF env.fallback = "raise" THEN "placeholder"
    ELSE "fallback"

\* ------------------------------------------------- audio_generator.py
AudioPath(c) == "audio_" \o c

\* generate_batch_audio: failing is the set of categories whose
\* generate_kannada_audio raises
GenerateBatchAudio(content_dict, failing) ==
    [c \in DOMAIN content_dict |-> IF c \in failing THEN None ELSE AudioPath(c)]

\* ------------------------------------------------- pipeline.py
\* None where a timestamp is expected; the clock starts at 1
NoTime == 0

InitStats == [runs |-> 0, successes |-> 0, failures |-> 0, last_run |-> NoTime]

InitFrame ==
    [pc |-> "idle", tmp |-> 0, start_time |-> 0, exc |-> "", calls |-> {},
     completion_errors |-> {}, summarized |-> <<>>, media_searched |-> <<>>,
     segments |-> <<>>,
     news_data |-> <<>>, summaries |-> <<>>, translations |-> <<>>,
     audio_files |-> <<>>, valid_audio |-> <<>>, media_collections |-> <<>>,
     video_file |-> None, video_exists |-> FALSE,
     video_upload_enabled |-> "", uploads |-> <<>>, upload_result |-> None]

NoResult ==
    [success |-> FALSE, error |-> "", video_file |-> None, upload_result |-> None,
     execution_time_seconds |-> 0, categories_processed |-> <<>>,
     timestamp |-> 0, stats |-> None]

\* the result dicts hold the stats dict itself, not a copy of it
StatsRef == "self.stats"

\* faulty variant of NewsGateFails: only "if not news_data"
NewsGateFails_NoAny(news_data) == DOMAIN news_data = {}

\* "if not news_data or not any(news_data.values())"
NewsGateFails(news_data) ==
    \/ DOMAIN news_data = {}
    \/ ~ \E c \in DOMAIN news_data : Truthy(news_data[c])

\* faulty variant of ValidAudio: the None entries are kept
ValidAudio_KeepsNone(audio_files) == audio_files

\* "{k: v for k, v in audio_files.items() if v is not None}"
ValidAudio(audio_files) ==
    Restrict(audio_files, {c \in DOMAIN audio_files : audio_files[c] # None})

\* faulty variant of AudioGateFails: "<=" for "<"
AudioGateFails_OffByOne(valid_audio) == Cardinality(DOMAIN valid_audio) <= MinAudioSegments

\* "if len(valid_audio) < 3"
AudioGateFails(valid_audio) == Cardinality(DOMAIN valid_audio) < MinAudioSegments

\* faulty variant of VideoGateFails: "if not video_file"
VideoGateFails_PathOnly(video_file, exists) == ~Truthy(video_file)

\* "if not video_file or not os.path.exists(video_file)"
VideoGateFails(video_file, exists) == ~Truthy(video_file) \/ ~exists

\* faulty variant of Catches: a handler for the pipeline's own gate errors only
Catches_GateOnly(e) == e \in GateErrors

\* "except Exception as e": every exception raised inside the try block
Catches(e) == TRUE

\* the frame after exception e was raised inside the try block: the handler
\* starts at once with the load of self.stats["failures"]
Raised(f, e) ==
    IF Catches(e)
    THEN [f EXCEPT !.pc = "store_failures", !.exc = e, !.tmp = stats.failures]
    ELSE [f EXCEPT !.pc = "escaped", !.exc = e]

\* pcs at which a coroutine is suspended in an await (or not running)
AwaitPcs == {"idle", "collect", "summarize", "translate", "audio", "media",
             "compose", "publish", "done", "escaped"}

\* faulty variant of CanStep: a coroutine preempted between any two statements
CanStep_Preemptive(r) == TRUE

\* the event loop runs one coroutine at a time between suspension points;
\* the scheduler thread is not bound by that
CanStep(r) ==
    r \in ThreadTasks \/ \A q \in LoopTasks \ {r} : frame[q].pc \in AwaitPcs

\* lines 38-39: start_time = datetime.now(); load of self.stats["runs"]
Start(r) ==
    /\ frame[r].pc \in {"idle", "done"}
    /\ started < MaxRuns
    /\ CanStep(r)
    /\ frame' = [frame EXCEPT ![r] = [InitFrame EXCEPT !.pc = "store_runs",
                                         !.start_time = now, !.tmp = stats.runs]]
    /\ result' = [result EXCEPT ![r] = NoResult]
    /\ now' = now + 1
    /\ started' = started + 1
    /\ UNCHANGED stats

\* lines 39-40: store of self.stats["runs"], self.stats["last_run"] = start_time
StoreRuns(r) ==
    /\ frame[r].pc = "store_runs"
    /\ stats' = [stats EXCEPT !.runs = frame[r].tmp + 1, !.last_run = frame[r].start_time]
    /\ frame' = [frame EXCEPT ![r].pc = "collect"]
    /\ UNCHANGED <<now, started, result>>

\* lines 47-50: step 1 and its gate
Collect(r, raises, news) ==
    /\ frame[r].pc = "collect"
    /\ CanStep(r)
    /\ LET f == [frame[r] EXCEPT !.calls = @ \cup {"collect"}]
       IN frame' = [frame EXCEPT ![r] =
            IF raises THEN Raised(f, ErrCollaborator)
            ELSE IF NewsGateFails(news)
                 THEN Raised([f EXCEPT !.news_data = news], ErrNoNews)
                 ELSE [f EXCEPT !.news_data = news, !.pc = "summarize"]]
    /\ UNCHANGED <<stats, now, started, result>>

\* lines 56-66: step 2 and its gate; summarized logs the categories the
\* summarizer was invoked for, the k-th invocation being the one that raises
Summarize(r, raises, k) ==
    /\ frame[r].pc = "summarize"
    /\ CanStep(r)
    /\ LET news == frame[r].news_data
           nonempty == {c \in DOMAIN news : Truthy(news[c])}
           todo == KeysList(Restrict(news, nonempty))
           f == [frame[r] EXCEPT !.calls = IF nonempty = {} THEN @ ELSE @ \cup {"summarize"}]
           summaries == [c \in nonempty |-> "summary"]
       IN /\ k \in 1..Max(1, Len(todo))
          /\ ~(raises /\ nonempty # {}) => k = 1
          /\ frame' = [frame EXCEPT ![r] =
               IF raises /\ nonempty # {}
               THEN Raised([f EXCEPT !.summarized = SubSeq(todo, 1, k)], ErrCollaborator)
               ELSE IF DOMAIN summaries = {}
                    THEN Raised(f, ErrNoSummaries)
                    ELSE [f EXCEPT !.summaries = summaries, !.summarized = todo,
                                   !.pc = "translate"]]
    /\ UNCHANGED <<stats, now, started, result>>

\* lines 70-76: step 3; faulty is the set of categories whose translation
\* meets the collaborator behaviour env; completion_errors logs the
\* categories for which a completion call errored
Translate(r, raises, faulty, env) ==
    /\ frame[r].pc = "translate"
    /\ CanStep(r)
    /\ faulty \subseteq DOMAIN frame[r].summaries
    /\ LET f == [frame[r] EXCEPT !.calls = @ \cup {"translate"},
                                  !.completion_errors =
                                      IF ~raises /\ CompletionErrors(env) THEN faulty ELSE {}]
           translations ==
               [c \in DOMAIN frame[r].summaries |->
                   TranslateWithContext(IF c \in faulty THEN env ELSE OkTranslatorEnv)]
       IN frame' = [frame EXCEPT ![r] =
            IF raises \/ \E c \in DOMAIN translations : IsException(translations[c])
            THEN Raised(f, ErrCollaborator)
            ELSE [f EXCEPT !.translations = translations, !.pc = "audio"]]
    /\ UNCHANGED <<stats, now, started, result>>

\* lines 80-85: step 4 and its gate
Audio(r, raises, failing) ==
    /\ frame[r].pc = "audio"
    /\ CanStep(r)
    /\ failing \subseteq DOMAIN frame[r].translations
    /\ LET f == [frame[r] EXCEPT !.calls = @ \cup {"audio"}]
           audio_files == GenerateBatchAudio(frame[r].translations, failing)
           valid_audio == ValidAudio(audio_files)
           g == [f EXCEPT !.audio_files = audio_files, !.valid_audio = valid_audio]
       IN frame' = [frame EXCEPT ![r] =
            IF raises THEN Raised(f, ErrCollaborator)
            ELSE IF AudioGateFails(valid_audio)
                 THEN Raised(g, ErrInsufficientAudio)
                 ELSE [g EXCEPT !.pc = "media"]]
    /\ UNCHANGED <<stats, now, started, result>>

\* the media lists find_relevant_media returns: assets with local files,
\* its single placeholder asset, no asset, assets whose files are gone
MediaLists == {"assets", "fallback", "empty", "stale"}

\* lines 89-96: step 5; fallback is the set of categories for which
\* find_relevant_media returns the list missing instead of assets;
\* media_searched logs the categories the media finder was invoked for,
\* the k-th invocation being the one that raises
Media(r, raises, fallback, missing, k) ==
    /\ frame[r].pc = "media"
    /\ CanStep(r)
    /\ LET wanted == (DOMAIN frame[r].summaries) \cap (DOMAIN frame[r].valid_audio)
           todo == KeysList(Restrict(frame[r].summaries, wanted))
           f == [frame[r] EXCEPT !.calls = IF wanted = {} THEN @ ELSE @ \cup {"media"}]
           media_collections ==
               [c \in wanted |-> IF c \in fallback THEN missing ELSE "assets"]
       IN /\ fallback \subseteq wanted
          /\ missing \in MediaLists
          /\ fallback = {} => missing = "fallback"
          /\ k \in 1..Max(1, Len(todo))
          /\ ~(raises /\ wanted # {}) => k = 1
          /\ frame' = [frame EXCEPT ![r] =
               IF raises /\ wanted # {}
               THEN Raised([f EXCEPT !.media_searched = SubSeq(todo, 1, k)], ErrCollaborator)
               ELSE [f EXCEPT !.media_collections = media_collections,
                              !.media_searched = todo, !.pc = "compose"]]
    /\ UNCHANGED <<stats, now, started, result>>

\* video_assembler.py lines 112-149: the visual of a segment
SegmentVisual(media_items) ==
    IF media_items = "assets" THEN "images"
    ELSE IF media_items = "stale" THEN "fallback_background"
    ELSE "category_background"

\* faulty variant of Segments: no segment for a category without local media
Segments_OnlyWithMedia(audio_files, media_collections) ==
    LET todo == KeysList(Restrict(audio_files,
                    {c \in DOMAIN audio_files :
                        /\ Truthy(audio_files[c])
                        /\ c \in DOMAIN media_collections
                        /\ media_collections[c] = "assets"}))
    IN [i \in 1..Len(todo) |-> [category |-> todo[i], visual |-> "images"]]

\* video_assembler.py lines 293-306: one segment per category with audio
Segments(audio_files, media_collections) ==
    LET todo == KeysList(Restrict(audio_files, {c \in DOMAIN audio_files : Truthy(audio_files[c])}))
    IN [i \in 1..Len(todo) |->
          [category |-> todo[i],
           visual |-> SegmentVisual(IF todo[i] \in DOMAIN media_collections
                                    THEN media_collections[todo[i]] ELSE "empty")]]

\* lines 107-114: step 6 and its gate
Compose(r, raises, video_file, exists) ==
    /\ frame[r].pc = "compose"
    /\ CanStep(r)
    /\ LET f == [frame[r] EXCEPT !.calls = @ \cup {"compose"}]
           g == [f EXCEPT !.video_file = video_file, !.video_exists = exists,
                          !.segments = IF Truthy(video_file)
                                       THEN Segments(frame[r].valid_audio,
                                                     frame[r].media_collections)
                                       ELSE <<>>]
       IN frame' = [frame EXCEPT ![r] =
            IF raises THEN Raised(f, ErrCollaborator)
            ELSE IF VideoGateFails(video_file, exists)
                 THEN Raised(g, ErrVideoAssembly)
                 ELSE [g EXCEPT !.pc = "publish"]]
    /\ UNCHANGED <<stats, now, started, result>>

\* VIDEO_UPLOAD_ENABLED is not set in the environment
EnvUnset == "<unset>"

\* os.getenv(name, default)
Getenv(value, default) == IF value = EnvUnset THEN default ELSE value

\* str.lower() on the values the flag takes
Lower(s) ==
    CASE s \in {"TRUE", "True"} -> "true"
      [] s \in {"FALSE", "False"} -> "false"
      [] OTHER -> s

\* faulty variant of UploadEnabled: every value but "false" enables the upload
UploadEnabled_NotFalse(value) == Lower(Getenv(value, "true")) # "false"

\* line 118: os.getenv("VIDEO_UPLOAD_ENABLED", "true").lower() == "true"
UploadEnabled(value) == Lower(Getenv(value, "true")) = "true"

\* line 127: the upload_result of a run that skips the upload
UploadSkipped == [status |-> "skipped", reason |-> "upload_disabled"]

\* faulty variant of UploadGateFails: a failed upload fails the run
UploadGateFails_OnFailure(upload_result) ==
    "success" \in DOMAIN upload_result /\ ~upload_result.success

\* lines 128-134: upload_result is stored in the result and not inspected
UploadGateFails(upload_result) == FALSE

\* the exception a gate on upload_result would raise
ErrUpload == "Video upload failed"

\* lines 118-134: step 7, then the load of self.stats["successes"];
\* video_upload_enabled is the value of the environment variable
Publish(r, raises, video_upload_enabled, upload_result) ==
    /\ frame[r].pc = "publish"
    /\ CanStep(r)
    /\ LET upload_enabled == UploadEnabled(video_upload_enabled)
           e == [frame[r] EXCEPT !.video_upload_enabled = video_upload_enabled]
           f == IF upload_enabled
                THEN [e EXCEPT !.calls = @ \cup {"publish"},
                               !.uploads = Append(@, frame[r].video_file)]
                ELSE e
       IN frame' = [frame EXCEPT ![r] =
            IF raises /\ upload_enabled THEN Raised(f, ErrCollaborator)
            ELSE IF upload_enabled /\ UploadGateFails(upload_result)
            THEN Raised([f EXCEPT !.upload_result = upload_result], ErrUpload)
            ELSE [f EXCEPT !.upload_result =
                               IF upload_enabled THEN upload_result ELSE UploadSkipped,
                           !.tmp = stats.successes,
                           !.pc = "store_successes"]]
    /\ UNCHANGED <<stats, now, started, result>>

\* lines 134-149: store of self.stats["successes"], the result, return
StoreSuccesses(r) ==
    /\ frame[r].pc = "store_successes"
    /\ stats' = [stats EXCEPT !.successes = frame[r].tmp + 1]
    /\ result' = [result EXCEPT ![r] =
            [success |-> TRUE, error |-> "",
             video_file |-> frame[r].video_file,
             upload_result |-> frame[r].upload_result,
             execution_time_seconds |-> now - frame[r].start_time,
             categories_processed |-> KeysList(frame[r].valid_audio),
             timestamp |-> frame[r].start_time,
             stats |-> StatsRef]]
    /\ frame' = [frame EXCEPT ![r].pc = "done"]
    /\ UNCHANGED <<now, started>>

\* lines 152-164: store of self.stats["failures"], the result, return
StoreFailures(r) ==
    /\ frame[r].pc = "store_failures"
    /\ stats' = [stats EXCEPT !.failures = frame[r].tmp + 1]
    /\ result' = [result EXCEPT ![r] =
            [NoResult EXCEPT !.error = frame[r].exc,
                             !.execution_time_seconds = now - frame[r].start_time,
                             !.timestamp = frame[r].start_time,
                             !.stats = StatsRef]]
    /\ frame' = [frame EXCEPT ![r].pc = "done"]
    /\ UNCHANGED <<now, started>>

\* ------------------------------------------------- pipeline.py health_check
componentOrder == <<"news_collector", "audio_generator", "translator",
                    "visual_agent", "video_assembler", "uploader">>

InitHc == [pc |-> "idle", test_news |-> None, test_audio |-> None, exc |-> ""]

InitHealthStatus == [overall |-> "healthy", components |-> <<>>, timestamp |-> 0]

\* health_status["components"][k] = v
SetComponent(hs, k, v) == [hs EXCEPT !.components = (k :> v) @@ @]

\* "healthy" if probe else "unhealthy"
ProbeVerdict(probe) == IF Truthy(probe) THEN "healthy" ELSE "unhealthy"

\* "[k for k, v in health_status["components"].items() if v != "healthy"]"
UnhealthyComponents(components) ==
    SelectSeq(componentOrder,
              LAMBDA k : k \in DOMAIN components /\ components[k] # "healthy")

\* faulty variant of Aggregate: an unhealthy component reported as overall "unhealthy"
Aggregate_Unhealthy(hs) ==
    LET unhealthy_components == UnhealthyComponents(hs.components)
    IN IF unhealthy_components # <<>>
       THEN [hs EXCEPT !.overall = "unhealthy"]
                @@ ("unhealthy_components" :> unhealthy_components)
       ELSE hs

\* lines 192-195: the overall verdict once every component is recorded
Aggregate(hs) ==
    LET unhealthy_components == UnhealthyComponents(hs.components)
    IN IF unhealthy_components # <<>>
       THEN [hs EXCEPT !.overall = "degraded"]
                @@ ("unhealthy_components" :> unhealthy_components)
       ELSE hs

\* faulty variant of HcCatches: no handler around the probes
HcCatches_None(e) == FALSE

\* "except Exception as e" of health_check
HcCatches(e) == TRUE

\* lines 197-201: the handler and the return
HcRaised(e) ==
    IF HcCatches(e)
    THEN /\ health_status' = [health_status EXCEPT !.overall = "unhealthy"] @@ ("error" :> e)
         /\ hc' = [hc EXCEPT !.pc = "done", !.exc = e]
    ELSE /\ health_status' = health_status
         /\ hc' = [hc EXCEPT !.pc = "escaped", !.exc = e]

LoopIdle == \A q \in LoopTasks : frame[q].pc \in AwaitPcs

\* faulty variant of HcStart: the probe time recorded as the last run
HcStart_TouchesStats ==
    /\ hc.pc \in {"idle", "done"}
    /\ checks < MaxChecks
    /\ LoopIdle
    /\ checks' = checks + 1
    /\ hc' = [InitHc EXCEPT !.pc = "news"]
    /\ health_status' = [InitHealthStatus EXCEPT !.timestamp = now]
    /\ stats' = [stats EXCEPT !.last_run = now]
    /\ UNCHANGED <<now, started, frame, result, collectVars, agentVars>>

\* lines 168-176: the fresh status dict, then the news probe is awaited
HcStart ==
    /\ hc.pc \in {"idle", "done"}
    /\ checks < MaxChecks
    /\ LoopIdle
    /\ checks' = checks + 1
    /\ hc' = [InitHc EXCEPT !.pc = "news"]
    /\ health_status' = [InitHealthStatus EXCEPT !.timestamp = now]
    /\ UNCHANGED <<pipelineVars, collectVars, agentVars>>

\* lines 176-177: the news probe returns test_news or raises
HcNews(raises, test_news) ==
    /\ hc.pc = "news"
    /\ LoopIdle
    /\ IF raises THEN HcRaised("news probe raised")
       ELSE /\ health_status' =
                  SetComponent(health_status, "news_collector", ProbeVerdict(test_news))
            /\ hc' = [hc EXCEPT !.pc = "audio", !.test_news = test_news]
    /\ UNCHANGED <<checks, pipelineVars, collectVars, agentVars>>

\* lines 180-195, 201: the audio probe returns test_audio or raises
HcAudio(raises, test_audio) ==
    /\ hc.pc = "audio"
    /\ LoopIdle
    /\ IF raises THEN HcRaised("audio probe raised")
       ELSE /\ health_status' =
                  Aggregate(
                    SetComponent(
                      SetComponent(
                        SetComponent(
                          SetComponent(
                            SetComponent(health_status,
                              "audio_generator", ProbeVerdict(test_audio)),
                            "translator", "healthy"),
                          "visual_agent", "healthy"),
                        "video_assembler", "healthy"),
                      "uploader", "healthy"))
            /\ hc' = [hc EXCEPT !.pc = "done", !.test_audio = test_audio]
    /\ UNCHANGED <<checks, pipelineVars, collectVars, agentVars>>

\* ------------------------------------------------- collect_all_categories
\* faulty variant of GatherRaises: gather without return_exceptions=True
GatherRaises_Propagate(res) == \E c \in Categories : res[c] = "raise"

\* asyncio.gather(*tasks, return_exceptions=True) hands exceptions back as
\* results and never propagates one
GatherRaises(res) == FALSE

\* lines 200-202: one fetch task per category
CtStart ==
    /\ ct = "idle"
    /\ ct' = "gather"
    /\ results' = [c \in Categories |-> "pending"]
    /\ UNCHANGED <<collected_news, pipelineVars, healthVars, agentVars>>

\* the fetch task of category c finishes; the tasks run concurrently
CtFetch(c, raises, env) ==
    /\ ct = "gather"
    /\ results[c] = "pending"
    /\ results' = [results EXCEPT ![c] = IF raises THEN "raise" ELSE CollectTrendingNews(env)]
    /\ UNCHANGED <<ct, collected_news, pipelineVars, healthVars, agentVars>>

\* lines 203-213: gather returns, the results are zipped with the categories
CtReturn ==
    /\ ct = "gather"
    /\ \A c \in Categories : results[c] # "pending"
    /\ IF GatherRaises(results)
       THEN ct' = "raised" /\ UNCHANGED collected_news
       ELSE ct' = "done" /\ collected_news' = ZipResults(results)
    /\ UNCHANGED <<results, pipelineVars, healthVars, agentVars>>

\* ------------------------------------------------- audio_generator.py generate_kannada_audio
\* number of calls of generate_kannada_audio that are followed
MaxNarratorCalls == 2

Texts == {"text_a", "text_b"}

NarratorCategories == {"karnataka", "national"}

\* target_duration=None
NoTarget == 0

\* durations are counted in tenths of a second
TargetDurations == {NoTarget, 100}

CurrentDurations == {100, 110, 200}

\* hash(text) % 10000
HashMod(text) == IF text = "text_a" THEN 1 ELSE 2

\* f"./data/audio_cache/{category}_{hash(text) % 10000}.mp3"
OutputPath(category, text) ==
    [category |-> category, hash |-> HashMod(text), adjusted |-> FALSE]

\* audio_path.replace('.mp3', '_adjusted.mp3')
AdjustedPath(audio_path) == [audio_path EXCEPT !.adjusted = TRUE]

\* no path: the call raised
NoPath == [category |-> "", hash |-> 0, adjusted |-> FALSE]

Abs(n) == IF n < 0 THEN 0 - n ELSE n

\* 0.8 <= current_duration / target_duration <= 1.25
ReasonableSpeed(current_duration, target_duration) ==
    /\ 4 * target_duration <= 5 * current_duration
    /\ 4 * current_duration <= 5 * target_duration

\* _adjust_audio_timing: the path of the audio to use; raises says that
\* reading or exporting the audio raised, which the function catches
AdjustAudioTiming(audio_path, target_duration, current_duration, raises) ==
    IF raises THEN audio_path
    ELSE IF Abs(current_duration - target_duration) < 5 THEN audio_path
    ELSE IF ReasonableSpeed(current_duration, target_duration)
         THEN AdjustedPath(audio_path)
         ELSE audio_path

\* faulty variant of Reraises: the handler returns None
Reraises_ReturnsNone(e) == FALSE

\* lines 225-227: "except Exception as e: ... raise"
Reraises(e) == TRUE

\* the path as the string the caller receives; None when there is none
PathStr(audio_path) ==
    IF audio_path = NoPath THEN None
    ELSE "./data/audio_cache/" \o audio_path.category \o "_" \o ToString(audio_path.hash)
             \o (IF audio_path.adjusted THEN "_adjusted" ELSE "") \o ".mp3"

\* what one call of generate_kannada_audio does on a narrator whose cache
\* directory holds the paths of cache: agent and speech are the outcomes of
\* self.agent.achat and of _generate_speech, current_duration the length of
\* the synthesized audio; ok says that the call returned
KannadaAudioCall(cache, text, category, target_duration, agent, speech, current_duration, adjust_raises) ==
    LET output_path == OutputPath(category, text)
        call == [text |-> text, category |-> category,
                 target_duration |-> target_duration,
                 ok |-> TRUE, path |-> output_path, synthesized |-> FALSE]
        audio_path ==
            IF target_duration # NoTarget
            THEN AdjustAudioTiming(output_path, target_duration,
                                   current_duration, adjust_raises)
            ELSE output_path
    IN IF output_path \in cache THEN call
       ELSE IF agent = "raise" \/ speech = "raise"
       THEN [call EXCEPT !.ok = ~Reraises("narrator raised"), !.path = NoPath,
                         !.synthesized = (agent = "ok")]
       ELSE [call EXCEPT !.path = audio_path, !.synthesized = TRUE]

\* one call of generate_kannada_audio on the narrator of the model
GenerateKannadaAudio(text, category, target_duration, agent, speech, current_duration, adjust_raises) ==
    /\ Len(na_log) < MaxNarratorCalls
    /\ LET call == KannadaAudioCall(audio_cache, text, category, target_duration,
                                    agent, speech, current_duration, adjust_raises)
       IN /\ na_log' = Append(na_log, call)
          /\ audio_cache' = IF call.synthesized /\ call.path # NoPath
                            THEN audio_cache \cup {OutputPath(category, text), call.path}
                            ELSE audio_cache
    /\ UNCHANGED <<ba, ep, fm, up, cv, pipelineVars, healthVars, collectVars>>

\* ------------------------------------------------- audio_generator.py generate_batch_audio
InitBa ==
    [pc |-> "idle", content_dict |-> <<>>, tasks |-> <<>>, idx |-> 1,
     running |-> {}, attempted |-> {}, raised |-> {}, audio_files |-> <<>>]

\* faulty variant of BatchCatches: no handler around "await task"
BatchCatches_None(e) == FALSE

\* line 256: "except Exception as e" around "await task"
BatchCatches(e) == TRUE

\* lines 241-247: the coroutine objects are created, none is started
BaStart(content_dict) ==
    /\ ba.pc = "idle"
    /\ ba' = [InitBa EXCEPT !.pc = "loop", !.content_dict = content_dict,
                            !.tasks = KeysList(content_dict)]
    /\ UNCHANGED <<audio_cache, na_log, ep, fm, up, cv, pipelineVars, healthVars, collectVars>>

\* line 252: "await task" starts the coroutine of the next category
BaAwait ==
    /\ ba.pc = "loop"
    /\ ba.idx <= Len(ba.tasks)
    /\ ba' = [ba EXCEPT !.pc = "awaiting",
                        !.running = @ \cup {ba.tasks[ba.idx]},
                        !.attempted = @ \cup {ba.tasks[ba.idx]}]
    /\ UNCHANGED <<audio_cache, na_log, ep, fm, up, cv, pipelineVars, healthVars, collectVars>>

\* lines 252-257: the awaited coroutine returns its path or raises
BaResume(raises) ==
    /\ ba.pc = "awaiting"
    /\ LET category == ba.tasks[ba.idx]
           b == [ba EXCEPT !.running = @ \ {category}]
       IN ba' = IF ~raises
                THEN [b EXCEPT !.audio_files = (category :> AudioPath(category)) @@ @,
                               !.idx = @ + 1, !.pc = "loop"]
                ELSE IF BatchCatches("synthesis raised")
                THEN [b EXCEPT !.audio_files = (category :> None) @@ @,
                               !.raised = @ \cup {category},
                               !.idx = @ + 1, !.pc = "loop"]
                ELSE [b EXCEPT !.raised = @ \cup {category}, !.pc = "raised"]
    /\ UNCHANGED <<audio_cache, na_log, ep, fm, up, cv, pipelineVars, healthVars, collectVars>>

\* line 259: return audio_files
BaReturn ==
    /\ ba.pc = "loop"
    /\ ba.idx > Len(ba.tasks)
    /\ ba' = [ba EXCEPT !.pc = "done"]
    /\ UNCHANGED <<audio_cache, na_log, ep, fm, up, cv, pipelineVars, healthVars, collectVars>>

\* ------------------------------------------------- main.py endpoints
InitEp == [check |-> 0, status_code |-> 0, content |-> <<>>]

\* faulty variant of StatusCode: only an unhealthy aggregate answers 503
StatusCode_NotUnhealthy(health) == IF health.overall # "unhealthy" THEN 200 ELSE 503

\* line 135: 200 if health["overall"] == "healthy" else 503
StatusCode(health) == IF health.overall = "healthy" THEN 200 ELSE 503

\* lines 130-142: GET /health answers once pipeline.health_check returned
\* or raised; ep.check is the number of the health check it answers
HealthEndpoint ==
    /\ hc.pc \in {"done", "escaped"}
    /\ ep.check # checks
    /\ ep' = IF hc.pc = "done"
             THEN [check |-> checks, status_code |-> StatusCode(health_status),
                   content |-> health_status]
             ELSE [check |-> checks, status_code |-> 503,
                   content |-> [overall |-> "unhealthy", error |-> hc.exc]]
    /\ UNCHANGED <<audio_cache, na_log, ba, fm, up, cv, pipelineVars, healthVars, collectVars>>

\* lines 121-128: GET /pipeline/status computes
\* stats["successes"] / max(1, stats["runs"]) * 100, kept here as the
\* fraction num / den
SuccessRate == [num |-> stats.successes * 100, den |-> Max(1, stats.runs)]

\* ------------------------------------------------- visual_content.py find_relevant_media
InitFm == [pc |-> "idle", term |-> 1, all_media |-> <<>>, next |-> 1,
           selected_media |-> <<>>, exc |-> "", result |-> <<>>]

\* lines 280-285: the single placeholder asset
FallbackMedia == <<[id |-> "fallback", source |-> "fallback", local_path |-> None]>>

\* the number of hits a stock photo search returns (count = 3)
SearchHits == {0, 1, 3}

\* n hits of one source
Hits(source, n) == [i \in 1..n |-> [id |-> "photo", source |-> source, local_path |-> None]]

\* faulty variant of FmCatches: the handler catches network errors only
FmCatches_NetworkOnly(e) == e # "agent raised"

\* line 277: "except Exception as e" of find_relevant_media
FmCatches(e) == TRUE

\* lines 277-285: the handler returns the placeholder list
FmRaised(e) ==
    IF FmCatches(e)
    THEN [fm EXCEPT !.pc = "done", !.exc = e, !.result = FallbackMedia]
    ELSE [fm EXCEPT !.pc = "raised", !.exc = e]

\* lines 229-249: the call, up to the await of self.agent.achat
FmStart ==
    /\ fm.pc = "idle"
    /\ fm' = [InitFm EXCEPT !.pc = "agent"]
    /\ UNCHANGED <<audio_cache, na_log, ba, ep, up, cv, pipelineVars, healthVars, collectVars>>

\* lines 249-252: self.agent.achat returns or raises
FmAgent(agent) ==
    /\ fm.pc = "agent"
    /\ fm' = IF agent = "raise" THEN FmRaised("agent raised")
             ELSE [fm EXCEPT !.pc = "search"]
    /\ UNCHANGED <<audio_cache, na_log, ba, ep, up, cv, pipelineVars, healthVars, collectVars>>

\* lines 257-264: both searches for one of the top 2 search terms
FmSearch(raises, unsplash, pexels) ==
    /\ fm.pc = "search"
    /\ fm' = IF raises THEN FmRaised("search raised")
             ELSE [fm EXCEPT !.all_media = @ \o Hits("unsplash", unsplash) \o Hits("pexels", pexels),
                             !.term = @ + 1,
                             !.pc = IF fm.term = 2 THEN "download" ELSE "search"]
    /\ UNCHANGED <<audio_cache, na_log, ba, ep, up, cv, pipelineVars, healthVars, collectVars>>

\* lines 268-272: _download_media for the next of the top 4 items returns
\* a path or None, or raises
FmDownload(outcome) ==
    /\ fm.pc = "download"
    /\ fm.next <= Len(fm.all_media) /\ fm.next <= 4
    /\ fm' = IF outcome = "raise" THEN FmRaised("download raised")
             ELSE IF outcome = "none" THEN [fm EXCEPT !.next = @ + 1]
             ELSE [fm EXCEPT !.next = @ + 1,
                             !.selected_media =
                                 Append(@, [fm.all_media[fm.next] EXCEPT !.local_path = "file"])]
    /\ UNCHANGED <<audio_cache, na_log, ba, ep, up, cv, pipelineVars, healthVars, collectVars>>

\* lines 274-275: return selected_media
FmReturn ==
    /\ fm.pc = "download"
    /\ fm.next > Len(fm.all_media) \/ fm.next > 4
    /\ fm' = [fm EXCEPT !.pc = "done", !.result = fm.selected_media]
    /\ UNCHANGED <<audio_cache, na_log, ba, ep, up, cv, pipelineVars, healthVars, collectVars>>

\* ------------------------------------------------- youtube_uploader.py _upload_video
\* number of times next_chunk reports an upload that is not complete yet
MaxIncomplete == 1

InitUp == [pc |-> "idle", retry |-> 0, incomplete |-> 0, log |-> <<>>, video_id |-> None]

HttpStatuses == {400, 403, 500, 502, 503, 504}

\* "e.resp.status in [500, 502, 503, 504]"
Retryable(status) == status \in {500, 502, 503, 504}

\* faulty variant of MaxRetriesExceeded: ">=" read as one retry more
MaxRetriesExceeded_OneMore(retry) == retry > 4

\* "if retry > 3"
MaxRetriesExceeded(retry) == retry > 3

\* lines 150-194: not authenticated, or the request is built and the loop entered
UpStart(authenticated) ==
    /\ up.pc = "idle"
    /\ up' = [InitUp EXCEPT !.pc = IF authenticated THEN "loop" ELSE "done"]
    /\ UNCHANGED <<audio_cache, na_log, ba, ep, fm, cv, pipelineVars, healthVars, collectVars>>

\* lines 195-215: one turn of "while response is None"; kind is what
\* next_chunk does, status the status of its HttpError
UpNextChunk(kind, status) ==
    /\ up.pc = "loop"
    /\ kind = "incomplete" => up.incomplete < MaxIncomplete
    /\ kind # "http_error" => status = 0
    /\ LET u == [up EXCEPT !.log = Append(@, [kind |-> kind, status |-> status])]
       IN up' =
            CASE kind = "id" -> [u EXCEPT !.pc = "done", !.video_id = "video_id"]
              [] kind = "no_id" -> [u EXCEPT !.pc = "done"]
              [] kind = "incomplete" -> [u EXCEPT !.incomplete = @ + 1]
              [] kind = "exception" -> [u EXCEPT !.pc = "done"]
              [] kind = "http_error" ->
                    IF Retryable(status)
                    THEN IF MaxRetriesExceeded(up.retry + 1)
                         THEN [u EXCEPT !.retry = @ + 1, !.pc = "done"]
                         ELSE [u EXCEPT !.retry = @ + 1]
                    ELSE [u EXCEPT !.pc = "done"]
    /\ UNCHANGED <<audio_cache, na_log, ba, ep, fm, cv, pipelineVars, healthVars, collectVars>>

\* ------------------------------------------------- video_assembler.py create_complete_video
InitCv == [pc |-> "idle", audio_files |-> <<>>, todo |-> <<>>, idx |-> 1,
           segments |-> <<>>, fell_back |-> {}, total_content_duration |-> 0,
           duration |-> 0, output_path |-> None]

\* lines 197, 233: intro_duration = 3.0, outro_duration = 2.0
IntroDuration == 3

OutroDuration == 2

\* faulty variant of SegmentDuration: no priority segment
SegmentDuration_Uniform(category) == 8

\* lines 15-22, 90: self.segment_durations.get(category, 8)
SegmentDuration(category) == IF category = "karnataka" THEN 10 ELSE 8

\* lines 178-193: the duration of the segment built when the segment failed
FallbackSegmentDuration == 8

\* line 293: [cat for cat in audio_files.keys() if audio_files[cat]]
CategoriesToProcess(audio_files) ==
    KeysList(Restrict(audio_files, {c \in DOMAIN audio_files : Truthy(audio_files[c])}))

RECURSIVE SumDurations(_)
\* the duration of concatenate_videoclips(segments)
SumDurations(segments) ==
    IF segments = <<>> THEN 0
    ELSE segments[1].duration + SumDurations(Tail(segments))

\* lines 319-320: "if final_video.duration > 60: subclip(0, 60)"
Trim(duration) == IF duration > 60 THEN 60 ELSE duration

\* lines 275-293: the intro is built; raises says that it could not be
CvStart(audio_files, raises) ==
    /\ cv.pc = "idle"
    /\ cv' = IF raises THEN [InitCv EXCEPT !.pc = "done", !.audio_files = audio_files]
             ELSE [InitCv EXCEPT !.pc = "segments", !.audio_files = audio_files,
                                 !.todo = CategoriesToProcess(audio_files),
                                 !.segments = <<[kind |-> "intro", category |-> "",
                                                 duration |-> IntroDuration]>>]
    /\ UNCHANGED <<audio_cache, na_log, ba, ep, fm, up, pipelineVars, healthVars, collectVars>>

\* lines 295-307: the segment of the next category: built ("ok"), replaced
\* by the fallback segment of _create_news_segment ("fallback"), or the
\* fallback raised too ("raise") and create_complete_video returns None
CvSegment(outcome) ==
    /\ cv.pc = "segments"
    /\ cv.idx <= Len(cv.todo)
    /\ LET category == cv.todo[cv.idx]
           duration == IF outcome = "ok" THEN SegmentDuration(category)
                       ELSE FallbackSegmentDuration
       IN cv' = IF outcome = "raise" THEN [cv EXCEPT !.pc = "done"]
                ELSE [cv EXCEPT !.segments = Append(@, [kind |-> "news", category |-> category,
                                                        duration |-> duration]),
                                !.fell_back = IF outcome = "ok" THEN @ ELSE @ \cup {category},
                                !.total_content_duration = @ + SegmentDuration(category),
                                !.idx = @ + 1]
    /\ UNCHANGED <<audio_cache, na_log, ba, ep, fm, up, pipelineVars, healthVars, collectVars>>

\* lines 309-350: the outro, the concatenation, the trim and the export
CvFinish(raises) ==
    /\ cv.pc = "segments"
    /\ cv.idx > Len(cv.todo)
    /\ LET segments == IF cv.total_content_duration < 55
                       THEN Append(cv.segments, [kind |-> "outro", category |-> "",
                                                 duration |-> OutroDuration])
                       ELSE cv.segments
       IN cv' = [cv EXCEPT !.pc = "done", !.segments = segments,
                           !.duration = Trim(SumDurations(segments)),
                           !.output_path = IF raises THEN None ELSE "video.mp4"]
    /\ UNCHANGED <<audio_cache, na_log, ba, ep, fm, up, pipelineVars, healthVars, collectVars>>

\* ------------------------------------------------- specifications
Init ==
    /\ stats = InitStats
    /\ now = 1
    /\ started = 0
    /\ frame = [r \in Tasks |-> InitFrame]
    /\ result = [r \in Tasks |-> NoResult]
    /\ hc = InitHc
    /\ health_status = InitHealthStatus
    /\ checks = 0
    /\ ct = "idle"
    /\ results = [c \in Categories |-> "pending"]
    /\ collected_news = <<>>
    /\ audio_cache = {}
    /\ na_log = <<>>
    /\ ba = InitBa
    /\ ep = InitEp
    /\ fm = InitFm
    /\ up = InitUp
    /\ cv = InitCv

VideoPath == "video.mp4"

\* youtube_uploader.py: the dicts upload_with_optimization returns
UploadOk == [success |-> TRUE, video_id |-> "video_id"]

UploadFailed == [success |-> FALSE, error |-> "upload failed"]

\* the dict the source provider is replaced by in tests/test_pipeline.py
KarnatakaOnly == [c \in {"karnataka"} |-> NewsItem]

\* the behaviours of the collaborators: every outcome of every stage;
\* faulty and fallback are the numbers of leading categories that can meet
\* a misbehaving translator or media search
FullEnv ==
    [raises |-> BOOLEAN,
     news |-> AllNewsMaps \cup {<<>>, KarnatakaOnly},
     raise_at |-> 1,
     faulty |-> MaxTranslateFaults,
     translator |-> TranslatorEnvs,
     failing |-> SUBSET Categories,
     fallback |-> MaxMediaFaults,
     missing |-> {"fallback"},
     video |-> {<<None, FALSE>>, <<VideoPath, FALSE>>, <<VideoPath, TRUE>>},
     video_upload_enabled |-> {EnvUnset, "false"},
     upload |-> {UploadOk, UploadFailed}]

\* the same collaborators with every category treated alike
CoarseEnv ==
    [raises |-> {FALSE},
     news |-> {[c \in Categories |-> NewsItem], [c \in Categories |-> EmptyItem]},
     raise_at |-> 1,
     faulty |-> 0,
     translator |-> {OkTranslatorEnv},
     failing |-> {{}, Categories \ {"karnataka", "kerala"}},
     fallback |-> 0,
     missing |-> {"fallback"},
     video |-> {<<None, FALSE>>, <<VideoPath, TRUE>>},
     video_upload_enabled |-> {EnvUnset},
     upload |-> {UploadOk}]

\* one run at a time: every outcome of every gate, every setting of the
\* upload flag and every answer of the publisher, all categories alike in
\* the translation and the media search
GateEnv ==
    [raises |-> BOOLEAN,
     news |-> {[c \in Categories |-> NewsItem], [c \in Categories |-> EmptyItem],
               <<>>, KarnatakaOnly},
     raise_at |-> Len(categories),
     faulty |-> 0,
     translator |-> {OkTranslatorEnv},
     failing |-> {{}, {"international", "national", "tamilnadu"},
                  Categories \ {"karnataka", "kerala"}, Categories},
     fallback |-> 1,
     missing |-> MediaLists \ {"assets"},
     video |-> {<<None, FALSE>>, <<VideoPath, FALSE>>, <<VideoPath, TRUE>>},
     video_upload_enabled |-> {EnvUnset, "true", "TRUE", "True", "false",
                               "False", "1", "yes", ""},
     upload |-> {UploadOk, UploadFailed}]

DoStart(R) == \E r \in R : Start(r) /\ UNCHANGED <<healthVars, collectVars, agentVars>>

DoStoreRuns(R) == \E r \in R : StoreRuns(r) /\ UNCHANGED <<healthVars, collectVars, agentVars>>

DoCollect(R, E) ==
    \E r \in R, raises \in E.raises, news \in E.news :
        Collect(r, raises, news) /\ UNCHANGED <<healthVars, collectVars, agentVars>>

DoSummarize(R, E) ==
    \E r \in R, raises \in E.raises, k \in 1..E.raise_at :
        Summarize(r, raises, k) /\ UNCHANGED <<healthVars, collectVars, agentVars>>

DoTranslate(R, E) ==
    \E r \in R, raises \in E.raises, env \in E.translator :
      \E faulty \in SUBSET FirstN(DOMAIN frame[r].summaries, E.faulty) :
        Translate(r, raises, faulty, env) /\ UNCHANGED <<healthVars, collectVars, agentVars>>

DoAudio(R, E) ==
    \E r \in R, raises \in E.raises, failing \in E.failing :
        Audio(r, raises, failing) /\ UNCHANGED <<healthVars, collectVars, agentVars>>

DoMedia(R, E) ==
    \E r \in R, raises \in E.raises, missing \in E.missing, k \in 1..E.raise_at :
      \E fallback \in SUBSET FirstN(DOMAIN frame[r].valid_audio, E.fallback) :
        Media(r, raises, fallback, missing, k) /\ UNCHANGED <<healthVars, collectVars, agentVars>>

DoCompose(R, E) ==
    \E r \in R, raises \in E.raises, v \in E.video :
        Compose(r, raises, v[1], v[2]) /\ UNCHANGED <<healthVars, collectVars, agentVars>>

DoPublish(R, E) ==
    \E r \in R, raises \in E.raises, enabled \in E.video_upload_enabled, u \in E.upload :
        Publish(r, raises, enabled, u) /\ UNCHANGED <<healthVars, collectVars, agentVars>>

DoStoreSuccesses(R) == \E r \in R : StoreSuccesses(r) /\ UNCHANGED <<healthVars, collectVars, agentVars>>

DoStoreFailures(R) == \E r \in R : StoreFailures(r) /\ UNCHANGED <<healthVars, collectVars, agentVars>>

DoHcNews == \E raises \in BOOLEAN, test_news \in {NewsItem, EmptyItem} : HcNews(raises, test_news)

DoHcAudio == \E raises \in BOOLEAN, test_audio \in {AudioPath("test"), None} : HcAudio(raises, test_audio)

\* lines 176, 180 of pipeline.py: the probes as the agents answer them: the
\* news probe is collect_trending_news("national"), the audio probe
\* generate_kannada_audio("ಪರೀಕ್ಷೆ", "test", 2.0) with or without a cached file
ProbeText == "text_b"

ProbeTarget == 20

DoHcNewsCollector == \E env \in FetchEnvs : HcNews(FALSE, CollectTrendingNews(env))

DoHcAudioNarrator ==
    \E cache \in SUBSET {OutputPath("test", ProbeText)}, agent \in {"ok", "raise"},
       speech \in {"ok", "raise"}, current_duration \in CurrentDurations \cup {ProbeTarget + 2, ProbeTarget + 5},
       adjust_raises \in BOOLEAN :
        LET call == KannadaAudioCall(cache, ProbeText, "test", ProbeTarget, agent, speech,
                                     current_duration, adjust_raises)
        IN HcAudio(~call.ok, PathStr(call.path))

DoFmAgent == \E agent \in {"ok", "raise"} : FmAgent(agent)

DoFmSearch == \E raises \in BOOLEAN, unsplash \in SearchHits, pexels \in SearchHits : FmSearch(raises, unsplash, pexels)

DoFmDownload == \E outcome \in {"path", "none", "raise"} : FmDownload(outcome)

DoUpStart == \E authenticated \in BOOLEAN : UpStart(authenticated)

DoUpNextChunk ==
    \E kind \in {"id", "no_id", "incomplete", "http_error", "exception"},
       status \in HttpStatuses \cup {0} : UpNextChunk(kind, status)

DoCvStart ==
    \E failing \in SUBSET Categories, raises \in BOOLEAN :
        CvStart(GenerateBatchAudio([c \in Categories |-> "text"], failing), raises)

DoCvSegment == \E outcome \in {"ok", "fallback", "raise"} : CvSegment(outcome)

DoCvFinish == \E raises \in BOOLEAN : CvFinish(raises)

DoCtFetch == \E c \in Categories, raises \in BOOLEAN, env \in FetchEnvs : CtFetch(c, raises, env)

DoGenerateKannadaAudio ==
    \E text \in Texts, category \in NarratorCategories,
       target_duration \in TargetDurations, agent \in {"ok", "raise"},
       speech \in {"ok", "raise"}, current_duration \in CurrentDurations,
       adjust_raises \in BOOLEAN :
        GenerateKannadaAudio(text, category, target_duration, agent, speech,
                             current_duration, adjust_raises)

\* the dicts of translated texts handed to generate_batch_audio
DoBaStart == \E keep \in SUBSET Categories : BaStart([c \in keep |-> "translation"])

DoBaResume == \E raises \in BOOLEAN : BaResume(raises)

\* invocations awaited one after the other, every collaborator behaviour
Next ==
    \/ DoStart({"m1"})
    \/ DoStoreRuns({"m1"})
    \/ DoCollect({"m1"}, FullEnv)
    \/ DoSummarize({"m1"}, FullEnv)
    \/ DoTranslate({"m1"}, FullEnv)
    \/ DoAudio({"m1"}, FullEnv)
    \/ DoMedia({"m1"}, FullEnv)
    \/ DoCompose({"m1"}, FullEnv)
    \/ DoPublish({"m1"}, FullEnv)
    \/ DoStoreSuccesses({"m1"})
    \/ DoStoreFailures({"m1"})

Spec == Init /\ [][Next]_vars

\* a background run on the event loop and a run of the scheduler thread
NextThreads ==
    \/ DoStart({"m1", "sched"})
    \/ DoStoreRuns({"m1", "sched"})
    \/ DoCollect({"m1", "sched"}, CoarseEnv)
    \/ DoSummarize({"m1", "sched"}, CoarseEnv)
    \/ DoTranslate({"m1", "sched"}, CoarseEnv)
    \/ DoAudio({"m1", "sched"}, CoarseEnv)
    \/ DoMedia({"m1", "sched"}, CoarseEnv)
    \/ DoCompose({"m1", "sched"}, CoarseEnv)
    \/ DoPublish({"m1", "sched"}, CoarseEnv)
    \/ DoStoreSuccesses({"m1", "sched"})
    \/ DoStoreFailures({"m1", "sched"})

SpecThreads == Init /\ [][NextThreads]_vars

\* health checks on the event loop, between and during background runs
NextHealth ==
    \/ HcStart
    \/ DoHcNews
    \/ DoHcAudio
    \/ HealthEndpoint
    \/ DoStart({"m1"})
    \/ DoStoreRuns({"m1"})
    \/ DoCollect({"m1"}, CoarseEnv)
    \/ DoSummarize({"m1"}, CoarseEnv)
    \/ DoTranslate({"m1"}, CoarseEnv)
    \/ DoAudio({"m1"}, CoarseEnv)
    \/ DoMedia({"m1"}, CoarseEnv)
    \/ DoCompose({"m1"}, CoarseEnv)
    \/ DoPublish({"m1"}, CoarseEnv)
    \/ DoStoreSuccesses({"m1"})
    \/ DoStoreFailures({"m1"})

SpecHealth == Init /\ [][NextHealth]_vars

\* one stand-alone call of collect_all_categories
NextCollect ==
    \/ CtStart
    \/ DoCtFetch
    \/ CtReturn

SpecCollect == Init /\ [][NextCollect]_vars

\* two runs started on the event loop, which interleave at their awaits
NextLoop ==
    \/ DoStart(LoopTasks)
    \/ DoStoreRuns(LoopTasks)
    \/ DoCollect(LoopTasks, CoarseEnv)
    \/ DoSummarize(LoopTasks, CoarseEnv)
    \/ DoTranslate(LoopTasks, CoarseEnv)
    \/ DoAudio(LoopTasks, CoarseEnv)
    \/ DoMedia(LoopTasks, CoarseEnv)
    \/ DoCompose(LoopTasks, CoarseEnv)
    \/ DoPublish(LoopTasks, CoarseEnv)
    \/ DoStoreSuccesses(LoopTasks)
    \/ DoStoreFailures(LoopTasks)

SpecLoop == Init /\ [][NextLoop]_vars

\* invocations awaited one after the other, every gate outcome and flag setting
NextGates ==
    \/ DoStart({"m1"})
    \/ DoStoreRuns({"m1"})
    \/ DoCollect({"m1"}, GateEnv)
    \/ DoSummarize({"m1"}, GateEnv)
    \/ DoTranslate({"m1"}, GateEnv)
    \/ DoAudio({"m1"}, GateEnv)
    \/ DoMedia({"m1"}, GateEnv)
    \/ DoCompose({"m1"}, GateEnv)
    \/ DoPublish({"m1"}, GateEnv)
    \/ DoStoreSuccesses({"m1"})
    \/ DoStoreFailures({"m1"})

SpecGates == Init /\ [][NextGates]_vars

\* successive calls of generate_kannada_audio on one narrator
NextNarrator == DoGenerateKannadaAudio

SpecNarrator == Init /\ [][NextNarrator]_vars

\* one stand-alone call of generate_batch_audio
NextBatch ==
    \/ DoBaStart
    \/ BaAwait
    \/ DoBaResume
    \/ BaReturn

SpecBatch == Init /\ [][NextBatch]_vars

\* health checks whose probes are answered by the news collector and the
\* narrator, between the awaits of a run
NextProbes ==
    \/ HcStart
    \/ DoHcNewsCollector
    \/ DoHcAudioNarrator
    \/ HealthEndpoint
    \/ DoStart({"m1"})
    \/ DoStoreRuns({"m1"})
    \/ DoCollect({"m1"}, CoarseEnv)
    \/ DoSummarize({"m1"}, CoarseEnv)
    \/ DoTranslate({"m1"}, CoarseEnv)
    \/ DoAudio({"m1"}, CoarseEnv)
    \/ DoMedia({"m1"}, CoarseEnv)
    \/ DoCompose({"m1"}, CoarseEnv)
    \/ DoPublish({"m1"}, CoarseEnv)
    \/ DoStoreSuccesses({"m1"})
    \/ DoStoreFailures({"m1"})

SpecProbes == Init /\ [][NextProbes]_vars

\* one stand-alone call of find_relevant_media
NextMedia ==
    \/ FmStart
    \/ DoFmAgent
    \/ DoFmSearch
    \/ DoFmDownload
    \/ FmReturn

SpecMedia == Init /\ [][NextMedia]_vars

\* one stand-alone call of _upload_video
NextUpload ==
    \/ DoUpStart
    \/ DoUpNextChunk

SpecUpload == Init /\ [][NextUpload]_vars

\* the call is not abandoned: the thread that runs it keeps running
SpecUploadLive == SpecUpload /\ WF_vars(NextUpload)

\* one stand-alone call of create_complete_video
NextComposer ==
    \/ DoCvStart
    \/ DoCvSegment
    \/ DoCvFinish

SpecComposer == Init /\ [][NextComposer]_vars

\* ------------------------------------------------- properties
Returned(r) == frame[r].pc = "done"

AllReturned == \A r \in Tasks : frame[r].pc \in {"idle", "done"}

\* the categories for which d holds a value that is not None
NonNull(d) == {c \in DOMAIN d : d[c] # None}

\* C1: once every invocation has returned, stats["runs"] equals the number
\* of invocations and successes + failures equals runs, also when a run of
\* the scheduler thread overlaps a background run of the event loop.
C1_EveryRunCounted ==
    AllReturned =>
        /\ stats.runs = started
        /\ stats.successes + stats.failures = stats.runs

\* the source provider returned, and no category has a news item
NoNews(r) ==
    /\ "collect" \in frame[r].calls
    /\ ~(frame[r].exc = ErrCollaborator /\ frame[r].calls = {"collect"})
    /\ \A c \in DOMAIN frame[r].news_data : frame[r].news_data[c] = EmptyItem

\* C2: when the source provider returns an empty item for every category
\* (or an empty dict), the run ends with success = false and the error
\* "No news data collected", failures grows by exactly 1 (at the return),
\* successes does not change, and no stage after the collection is called.
C2_NoNewsFailsRun ==
    [][\A r \in Tasks : NoNews(r)' =>
          /\ frame'[r].exc = ErrNoNews
          /\ frame'[r].calls = {"collect"}
          /\ frame'[r].pc \in {"store_failures", "done"}
          /\ stats'.successes = stats.successes
          /\ IF frame'[r].pc = "done"
             THEN /\ result'[r].success = FALSE
                  /\ result'[r].error = ErrNoNews
                  /\ stats'.failures = stats.failures + (IF frame[r].pc = "done" THEN 0 ELSE 1)
             ELSE stats'.failures = stats.failures]_vars

C2_Witness ==
    /\ Returned("m1")
    /\ DOMAIN frame["m1"].news_data = Categories
    /\ \A c \in Categories : frame["m1"].news_data[c] = EmptyItem
    /\ result["m1"].error = ErrNoNews
    /\ stats.failures = 1

\* the narrator batch returned a dict
AudioReturned(r) == DOMAIN frame[r].audio_files # {}

C4_KarnatakaOnlySucceeds ==
    \A r \in Tasks :
        (/\ Returned(r)
         /\ {c \in DOMAIN frame[r].news_data : Truthy(frame[r].news_data[c])} = {"karnataka"}
         /\ frame[r].exc # ErrCollaborator
         /\ NonNull(frame[r].audio_files) = {"karnataka"})
        => /\ result[r].success
           /\ result[r].video_file # None
           /\ result[r].categories_processed = <<"karnataka">>
           /\ result[r].execution_time_seconds >= 0

\* C5: no exception leaves run_complete_pipeline; every invocation returns
\* a result with a boolean success, and when something raised with message
\* m the result has success = false and error = m.
C5_NoExceptionEscapes ==
    \A r \in Tasks :
        /\ frame[r].pc # "escaped"
        /\ Returned(r) =>
              /\ result[r].success \in BOOLEAN
              /\ frame[r].exc # "" => ~result[r].success /\ result[r].error = frame[r].exc
              /\ frame[r].exc = "" => result[r].success

C5_Witness ==
    /\ Returned("m1")
    /\ frame["m1"].calls = {"collect"}
    /\ frame["m1"].exc = ErrCollaborator
    /\ result["m1"].error = ErrCollaborator
    /\ ~result["m1"].success

\* C6: health_check never raises; it returns a dict with 'components' and
\* with 'overall' one of healthy, degraded, unhealthy, whatever the probes do.
C6_HealthCheckAlwaysReturns ==
    /\ hc.pc # "escaped"
    /\ hc.pc = "done" =>
          /\ {"overall", "components"} \subseteq DOMAIN health_status
          /\ health_status.overall \in {"healthy", "degraded", "unhealthy"}

C6_Witness ==
    /\ hc.pc = "done"
    /\ hc.exc = "audio probe raised"
    /\ health_status.overall = "unhealthy"

\* the components reported as not healthy
ReportedUnhealthy == {k \in DOMAIN health_status.components : health_status.components[k] # "healthy"}

Range(q) == {q[i] : i \in 1..Len(q)}

\* C7: overall is "unhealthy" iff a probe raised (and then 'error' is its
\* message); "healthy" iff no probe raised and all six components are
\* reported healthy; "degraded" iff no probe raised and some component is
\* reported unhealthy, and then 'unhealthy_components' lists exactly those.
C7_HealthAggregation ==
    hc.pc = "done" =>
        /\ health_status.overall = "unhealthy" <=> hc.exc # ""
        /\ hc.exc # "" => "error" \in DOMAIN health_status /\ health_status.error = hc.exc
        /\ health_status.overall = "healthy" <=>
              /\ hc.exc = ""
              /\ DOMAIN health_status.components = Range(componentOrder)
              /\ ReportedUnhealthy = {}
        /\ health_status.overall = "degraded" <=> (hc.exc = "" /\ ReportedUnhealthy # {})
        /\ health_status.overall = "degraded" =>
              /\ "unhealthy_components" \in DOMAIN health_status
              /\ Range(health_status.unhealthy_components) = ReportedUnhealthy
        /\ hc.exc = "" =>
              /\ health_status.components["news_collector"] = "healthy" <=> hc.test_news = NewsItem
              /\ health_status.components["audio_generator"] = "healthy" <=> hc.test_audio # None

C7_Witness ==
    /\ hc.pc = "done"
    /\ health_status.overall = "degraded"
    /\ ReportedUnhealthy = {"news_collector"}

\* C8: no step of health_check changes stats (runs, successes, failures,
\* last_run), between runs and while a run is in flight.
C8_HealthCheckKeepsStats ==
    [][(hc' # hc \/ checks' # checks) => stats' = stats]_vars

C8_Witness ==
    /\ hc.pc = "done"
    /\ frame["m1"].pc = "audio"
    /\ stats.runs = 1
    /\ stats.last_run # NoTime

\* the translator returned a dict
TranslateReturned(r) == DOMAIN frame[r].translations # {}

\* C9: an erroring completion call in the translation of one category
\* yields a placeholder for that category and the translations of all other
\* summarized categories; the run then fails at the audio gate only when
\* fewer than 3 categories have audio.
C9_TranslationFailureContained ==
    \A r \in Tasks :
        /\ (frame[r].completion_errors # {} /\ frame[r].pc # "translate") =>
               /\ TranslateReturned(r)
               /\ ~(frame[r].exc = ErrCollaborator /\ "audio" \notin frame[r].calls)
        /\ TranslateReturned(r) =>
               /\ DOMAIN frame[r].translations = DOMAIN frame[r].summaries
               /\ \A c \in DOMAIN frame[r].translations :
                     IF c \in frame[r].completion_errors
                     THEN frame[r].translations[c] = "placeholder"
                     ELSE frame[r].translations[c] \in {"kannada", "fallback"}
               /\ (AudioReturned(r) /\ Cardinality(NonNull(frame[r].audio_files)) >= 3) =>
                     (frame[r].pc = "media" \/ "media" \in frame[r].calls)

C9_Witness ==
    /\ Returned("m1")
    /\ result["m1"].success
    /\ frame["m1"].completion_errors = {"national"}
    /\ "karnataka" \in DOMAIN frame["m1"].translations
    /\ frame["m1"].translations["national"] = "placeholder"
    /\ frame["m1"].translations["karnataka"] = "kannada"
    /\ Len(result["m1"].categories_processed) = 3

\* C10: collect_all_categories does not raise, and returns one key per
\* configured category: the empty item for each category whose fetch
\* raised, and for every other category the item its fetch returned.
C10_FanOutIsolation ==
    /\ ct # "raised"
    /\ ct = "done" =>
          /\ DOMAIN collected_news = Categories
          /\ \A c \in Categories :
                IF results[c] = "raise"
                THEN collected_news[c] = EmptyItem
                ELSE collected_news[c] = results[c]

C10_Witness ==
    /\ ct = "done"
    /\ results["national"] = "raise"
    /\ results["karnataka"] = NewsItem
    /\ collected_news["karnataka"] = NewsItem
    /\ collected_news["national"] = EmptyItem

StageOrder == <<"collect", "summarize", "translate", "audio", "media", "compose", "publish">>

\* the first n stages
Stages(n) == {StageOrder[i] : i \in 1..n}

\* C12: within a run the stages are entered in the order collect,
\* summarize, translate, audio, media, compose, publish, each one only after
\* all the earlier ones; a stage after a gate is entered only when the gate's
\* data passed (a news item, a summary, 3 audio paths, a video file that
\* exists), and a run that ended with a gate error never called the publisher.
C12_StageOrder ==
    [][\A r \in Tasks :
          LET f == frame'[r]
          IN /\ (f.calls # frame[r].calls /\ f.calls # {}) =>
                   \E n \in 1..Len(StageOrder) :
                       /\ f.calls = Stages(n)
                       /\ frame[r].calls = Stages(n - 1)
             /\ "summarize" \in f.calls =>
                   \E c \in DOMAIN f.news_data : f.news_data[c] = NewsItem
             /\ "translate" \in f.calls => DOMAIN f.summaries # {}
             /\ "media" \in f.calls =>
                   Cardinality(NonNull(f.audio_files)) >= 3
             /\ "publish" \in f.calls => f.video_file # None /\ f.video_exists
             /\ f.exc \in GateErrors => "publish" \notin f.calls /\ f.uploads = <<>>]_vars

C12_Witness ==
    /\ Returned("m1")
    /\ frame["m1"].calls = Stages(7)
    /\ Cardinality(NonNull(frame["m1"].audio_files)) = 3
    /\ DOMAIN frame["m1"].audio_files = Categories
    /\ result["m1"].success

\* the values of VIDEO_UPLOAD_ENABLED that switch the upload on
FlagOn == {EnvUnset, "true", "TRUE", "True"}

\* C13: step 7 calls the publisher exactly once, with the composed video
\* file, when VIDEO_UPLOAD_ENABLED is unset or is "true" in any letter case;
\* with any other value the publisher is not called, upload_result is
\* {status: skipped, reason: upload_disabled}, and the run returns
\* success = true with that upload_result.
C13_PublishGating ==
    [][\A r \in Tasks :
          LET f == frame'[r]
          IN /\ Len(f.uploads) <= 1
             /\ (frame[r].pc = "publish" /\ f.pc # "publish") =>
                   IF f.video_upload_enabled \in FlagOn
                   THEN /\ f.uploads = <<frame[r].video_file>>
                        /\ "publish" \in f.calls
                   ELSE /\ f.uploads = <<>>
                        /\ "publish" \notin f.calls
                        /\ f.pc = "store_successes"
                        /\ f.upload_result = UploadSkipped
             /\ (frame[r].pc = "store_successes" /\ f.pc = "done") =>
                   /\ result'[r].success
                   /\ f.video_upload_enabled \notin FlagOn =>
                         /\ result'[r].upload_result = UploadSkipped
                         /\ f.uploads = <<>>]_vars

C13_Witness ==
    /\ Returned("m1")
    /\ result["m1"].success
    /\ frame["m1"].video_upload_enabled = "False"
    /\ frame["m1"].uploads = <<>>
    /\ result["m1"].upload_result = UploadSkipped

\* the composer returned, with no path or with a path at which no file exists
VideoMissing(r) ==
    /\ "compose" \in frame[r].calls
    /\ ~(frame[r].exc = ErrCollaborator /\ "publish" \notin frame[r].calls)
    /\ frame[r].video_file = None \/ ~frame[r].video_exists

C15_PerRunAccounting ==
    [][\A r \in Tasks :
          /\ (frame[r].pc = "store_runs" /\ frame'[r].pc = "collect") =>
                /\ stats'.runs = stats.runs + 1
                /\ stats'.last_run = frame[r].start_time
                /\ stats'.successes = stats.successes
                /\ stats'.failures = stats.failures
          /\ (frame[r].pc # "done" /\ frame'[r].pc = "done") =>
                /\ stats'.runs = stats.runs
                /\ IF result'[r].success
                   THEN /\ stats'.successes = stats.successes + 1
                        /\ stats'.failures = stats.failures
                   ELSE /\ stats'.failures = stats.failures + 1
                        /\ stats'.successes = stats.successes]_vars

\* the dict found under the key 'stats' of a result
StatsOf(res) == IF res.stats = StatsRef THEN stats ELSE res.stats

\* C16: the 'stats' of the result of a run that returned does not change
\* for as long as the caller holds that result, whatever later runs do.
C16_ResultStatsSnapshot ==
    [][\A r \in Tasks :
          (Returned(r) /\ Returned(r)' /\ result'[r] = result[r]) =>
              StatsOf(result[r])' = StatsOf(result[r])]_vars

\* C17: the health endpoint answers 200 exactly when the aggregate it
\* returns is "healthy" and 503 when it is "degraded" or "unhealthy" or
\* when health_check raised; the body always has the key 'overall', and is
\* the dict health_check returned when it returned one.
C17_HealthEndpoint ==
    ep.check > 0 =>
        /\ "overall" \in DOMAIN ep.content
        /\ ep.content.overall \in {"healthy", "degraded", "unhealthy"}
        /\ ep.status_code = 200 <=> ep.content.overall = "healthy"
        /\ ep.status_code = 503 <=> ep.content.overall \in {"degraded", "unhealthy"}
        /\ (ep.check = checks /\ hc.pc = "done") => ep.content = health_status
        /\ (ep.check = checks /\ hc.pc = "escaped") => ep.status_code = 503

C17_Witness ==
    /\ ep.check = 2
    /\ ep.status_code = 503
    /\ ep.content.overall = "degraded"
    /\ ep.content = health_status

\* C18: the success rate of the status endpoint is 0 before any run, its
\* divisor is never 0, and it lies between 0 and 100 in every state, also
\* while runs are in flight.
C18_SuccessRateBounded ==
    /\ SuccessRate.den >= 1
    /\ started = 0 => SuccessRate.num = 0
    /\ 0 <= SuccessRate.num
    /\ SuccessRate.num <= 100 * SuccessRate.den

\* C19: the narrator batch fans out: while its caller is suspended the
\* synthesis of every category whose outcome has not been collected yet is
\* in progress, so that a second synthesis runs before the first completed.
C19_FanOutConcurrent ==
    ba.pc = "awaiting" => ba.running = Range(ba.tasks) \ DOMAIN ba.audio_files

\* C20: generate_batch_audio does not raise whatever subset of the
\* syntheses raises; synthesis is attempted for every input category, and
\* the dict returned has exactly the input keys, None for each category
\* whose synthesis raised and the path for every other one.
C20_BatchContainment ==
    /\ ba.pc # "raised"
    /\ ba.pc = "done" =>
          /\ DOMAIN ba.audio_files = DOMAIN ba.content_dict
          /\ ba.attempted = DOMAIN ba.content_dict
          /\ ba.running = {}
          /\ \A c \in DOMAIN ba.content_dict :
                IF c \in ba.raised
                THEN ba.audio_files[c] = None
                ELSE ba.audio_files[c] = "audio_" \o c
          /\ ba.audio_files = GenerateBatchAudio(ba.content_dict, ba.raised)

C20_Witness ==
    /\ ba.pc = "done"
    /\ DOMAIN ba.content_dict = Categories
    /\ ba.raised = {"international", "karnataka"}
    /\ ba.audio_files["international"] = None
    /\ ba.audio_files["kerala"] = "audio_kerala"

\* C21: step 5 invokes the media finder exactly once for each category that
\* has an audio path and for no other category, so media_collections has
\* the keys of the valid audio; a category whose media list is empty, a
\* lone placeholder or without local files is kept: the composer builds its
\* segment on a background, and it is among categories_processed.
C21_MediaPerValidAudio ==
    \A r \in Tasks :
        LET f == frame[r]
            valid == NonNull(f.audio_files)
        IN /\ Range(f.media_searched) \subseteq valid
           /\ Len(f.media_searched) = Cardinality(Range(f.media_searched))
           /\ (f.pc = "compose" \/ "compose" \in f.calls) =>
                 /\ Range(f.media_searched) = valid
                 /\ DOMAIN f.media_collections = valid
           /\ (f.video_file # None /\ "compose" \in f.calls) =>
                 \A c \in valid :
                    \E i \in 1..Len(f.segments) :
                       /\ f.segments[i].category = c
                       /\ f.media_collections[c] # "assets" =>
                             f.segments[i].visual \in {"category_background",
                                                       "fallback_background"}
           /\ (Returned(r) /\ result[r].success) =>
                 Range(result[r].categories_processed) = valid

C21_Witness ==
    /\ Returned("m1")
    /\ result["m1"].success
    /\ frame["m1"].media_searched = categories
    /\ frame["m1"].media_collections["international"] = "empty"
    /\ frame["m1"].segments[1] =
          [category |-> "international", visual |-> "category_background"]
    /\ result["m1"].categories_processed[1] = "international"

PublishFailed(r) ==
    /\ Len(frame[r].uploads) = 1
    /\ frame[r].pc \in {"store_successes", "store_failures", "done"}
    /\ frame[r].exc # ErrCollaborator
    /\ frame[r].upload_result.success = FALSE

\* C27: when the publisher returns a result with success = false the run
\* still returns success = true with that result as upload_result, adds 1
\* to successes (at the return) and nothing to failures.
C27_PublishFailureKeepsSuccess ==
    [][\A r \in Tasks : PublishFailed(r)' =>
          /\ frame'[r].exc = ""
          /\ frame'[r].pc \in {"store_successes", "done"}
          /\ stats'.failures = stats.failures
          /\ IF frame'[r].pc = "done"
             THEN /\ result'[r].success
                  /\ result'[r].upload_result = frame'[r].upload_result
                  /\ result'[r].error = ""
                  /\ stats'.successes = stats.successes + (IF frame[r].pc = "done" THEN 0 ELSE 1)
             ELSE stats'.successes = stats.successes]_vars

C27_Witness ==
    /\ Returned("m1")
    /\ result["m1"].success
    /\ frame["m1"].uploads = <<VideoPath>>
    /\ result["m1"].upload_result = UploadFailed
    /\ stats.successes = 1
    /\ stats.failures = 0

\* C28: once the news gate has passed and the summarizer has returned, the
\* summaries are not empty: no run ends with "No content summaries generated".
C28_NoSummariesUnreachable ==
    \A r \in Tasks :
        /\ frame[r].exc # ErrNoSummaries
        /\ (frame[r].pc = "translate" \/ "translate" \in frame[r].calls) =>
              DOMAIN frame[r].summaries # {}
        /\ Returned(r) => result[r].error # ErrNoSummaries

C28_Witness ==
    /\ Returned("m1")
    /\ frame["m1"].news_data = KarnatakaOnly
    /\ frame["m1"].summarized = <<"karnataka">>
    /\ result["m1"].error = ErrInsufficientAudio

\* the runs that have started and not returned
InFlight == {r \in Tasks : frame[r].pc \notin {"idle", "done"}}

\* C30: with runs interleaved on one event loop only, no counter ever
\* decreases, and whenever every coroutine is at an await (or not running)
\* successes + failures <= runs and runs - (successes + failures) is the
\* number of runs in flight.
C30_LoopCounters ==
    [][/\ stats'.runs >= stats.runs
       /\ stats'.successes >= stats.successes
       /\ stats'.failures >= stats.failures
       /\ LoopIdle' =>
            /\ stats'.successes + stats'.failures <= stats'.runs
            /\ stats'.runs - (stats'.successes + stats'.failures) = Cardinality(InFlight')]_vars

C30_Witness ==
    /\ stats.runs = 2
    /\ stats.successes + stats.failures = 0
    /\ frame["m1"].pc = "audio"
    /\ frame["m2"].pc = "collect"

\* C22: find_relevant_media never raises; what it returns is a list; when
\* an internal call raised, the list holds exactly one placeholder asset
\* (id "fallback", no local path).
C22_FindMediaNeverRaises ==
    /\ fm.pc # "raised"
    /\ fm.pc = "done" =>
         /\ DOMAIN fm.result = 1..Len(fm.result)
         /\ fm.exc # "" =>
              /\ Len(fm.result) = 1
              /\ fm.result[1].id = "fallback"
              /\ fm.result[1].local_path = None
         /\ fm.exc = "" =>
              \A i \in 1..Len(fm.result) : fm.result[i].local_path # None

C22_Witness ==
    /\ fm.pc = "done"
    /\ fm.exc = "download raised"
    /\ Len(fm.selected_media) = 2
    /\ fm.result = FallbackMedia

\* every attempt so far failed with a server-class status
AllServerErrors(log) ==
    /\ log # <<>>
    /\ \A i \in 1..Len(log) : log[i].kind = "http_error" /\ log[i].status \in {500, 502, 503, 504}

UploadBounded ==
    /\ up.retry <= 4
    /\ Len(up.log) <= up.retry + up.incomplete + 1
    /\ AllServerErrors(up.log) =>
         /\ Len(up.log) <= 4
         /\ up.video_id = None
         /\ up.pc = "done" <=> Len(up.log) = 4
    /\ \A i \in 1..Len(up.log) :
         /\ (up.log[i].kind = "http_error" /\ up.log[i].status \notin {500, 502, 503, 504}) =>
               i = Len(up.log) /\ up.pc = "done" /\ up.video_id = None
         /\ up.log[i].kind = "id" =>
               i = Len(up.log) /\ up.pc = "done" /\ up.video_id # None
    /\ up.video_id # None => up.log # <<>> /\ up.log[Len(up.log)].kind = "id"

\* C24: the loop of _upload_video terminates and its retries are bounded:
\* attempts that all fail with 500, 502, 503 or 504 stop at the 4th (3
\* retries) without a video id; an HTTP error of another status ends the
\* loop at that attempt without a video id; a response with an id ends the
\* loop with that id.
C24_UploadLoopTerminates == []UploadBounded /\ <>(up.pc = "done")

C24_Witness ==
    /\ up.pc = "done"
    /\ AllServerErrors(up.log)
    /\ Len(up.log) = 4
    /\ up.retry = 4
    /\ up.video_id = None

\* the news segments of a timeline
NewsSegments(segments) == SelectSeq(segments, LAMBDA g : g.kind = "news")

\* the timeline is the intro, the segments of the categories with audio in
\* order, and the outro iff outro
TimelineShape(outro) ==
    LET news == NewsSegments(cv.segments)
    IN /\ cv.segments[1] = [kind |-> "intro", category |-> "", duration |-> 3]
       /\ [i \in 1..Len(news) |-> news[i].category] = CategoriesToProcess(cv.audio_files)
       /\ Len(cv.segments) = 1 + Len(news) + (IF outro THEN 1 ELSE 0)
       /\ outro => cv.segments[Len(cv.segments)] = [kind |-> "outro", category |-> "", duration |-> 2]
       /\ \A i \in 2..(Len(news) + 1) : cv.segments[i].kind = "news"

Composed == cv.pc = "done" /\ cv.output_path # None /\ CategoriesToProcess(cv.audio_files) # <<>>

\* C25 as stated: every segment lasts 10 seconds for karnataka and 8 seconds
\* for any other category.
C25_SegmentDurationsAsStated ==
    Composed =>
        LET news == NewsSegments(cv.segments)
        IN /\ TimelineShape(SumDurations(news) < 55)
           /\ \A i \in 1..Len(news) :
                 news[i].duration = IF news[i].category = "karnataka" THEN 10 ELSE 8
           /\ cv.duration <= 60

\* C25: the timeline is a 3-second intro, one segment per category with
\* audio, of 10 seconds for karnataka and 8 seconds for any other category,
\* or of 8 seconds for any category whose segment could not be built, and a
\* 2-second outro appended iff the configured segment durations sum to less
\* than 55 seconds; the video lasts the sum of its timeline and never more
\* than 60 seconds.
C25_VideoDuration ==
    Composed =>
        LET news == NewsSegments(cv.segments)
            configured == [i \in 1..Len(news) |->
                             [duration |-> IF news[i].category = "karnataka" THEN 10 ELSE 8]]
        IN /\ TimelineShape(SumDurations(configured) < 55)
           /\ \A i \in 1..Len(news) :
                 news[i].duration = IF news[i].category \in cv.fell_back THEN 8
                                    ELSE configured[i].duration
           /\ cv.duration = SumDurations(cv.segments)
           /\ cv.duration <= 60

C25_Witness ==
    /\ Composed
    /\ Len(cv.todo) = 6
    /\ cv.fell_back = {"karnataka"}
    /\ cv.duration = 53

\* the last five components a health check records
LaterComponents == {"audio_generator", "translator", "visual_agent", "video_assembler", "uploader"}

\* C29: the audio probe never makes a health check "degraded": the
\* audio_generator component is never recorded as "unhealthy"; a failed
\* audio probe gives overall "unhealthy" with none of audio_generator,
\* translator, visual_agent, video_assembler, uploader among the
\* components; overall "degraded" only when the news probe returned an
\* empty item and the audio probe succeeded.
C29_AudioProbeNeverDegrades ==
    /\ "audio_generator" \in DOMAIN health_status.components =>
           health_status.components["audio_generator"] = "healthy"
    /\ (hc.pc = "done" /\ hc.exc = "audio probe raised") =>
           /\ health_status.overall = "unhealthy"
           /\ DOMAIN health_status.components \cap LaterComponents = {}
    /\ health_status.overall = "degraded" =>
           /\ hc.pc = "done"
           /\ hc.test_news = EmptyItem
           /\ health_status.components["news_collector"] = "unhealthy"
           /\ hc.test_audio # None
           /\ health_status.components["audio_generator"] = "healthy"

C29_Witness ==
    /\ hc.pc = "done"
    /\ hc.exc = "audio probe raised"
    /\ hc.test_news = EmptyItem
    /\ health_status.overall = "unhealthy"
    /\ DOMAIN health_status.components = {"news_collector"}

====
